---- MODULE Spec2Model ----
(***************************************************************************)
(* Scoundrel rules engine and game-state model.                            *)
(*                                                                         *)
(* State: the fields of GameState (Player, Deck, Room, flags) from         *)
(* scoundrel/models.py.  Operations: the handle_* mutators and the         *)
(* can_* / preview_* queries of StandardRulesEngine in                     *)
(* scoundrel/engines/rules.py, and the Deck container methods.             *)
(*                                                                         *)
(* A python list is a sequence whose index 1 is python index 0.  For the   *)
(* deck, index 1 is the bottom and the last element is the top.            *)
(* An Optional value is a sequence of length 0 (None) or 1.                *)
(***************************************************************************)
EXTENDS Integers, Sequences, FiniteSets, TLC

VARIABLES
    deck,             \* Deck.cards
    bottomed_cards,   \* Deck.bottomed_cards
    room,             \* Room.cards
    potions_used,     \* Room.potions_used
    current_life,     \* Player.current_life
    max_life,         \* Player.max_life
    equipped,         \* Player.equipped (Optional[EquippedWeapon])
    last_room_fled,   \* GameState.last_room_fled
    slain_monsters,   \* GameState.slain_monsters
    discard_pile,     \* GameState.discard_pile
    raised,           \* the exception the last call raised, or "none"
    last,             \* history: the last call, its arguments, whether it went through, and what it found
    fleesSinceNormal, \* history: committed flees since the last handle_next_room with a non-empty room
    healsSinceDeal,   \* history: drinks that changed current_life since the last handle_next_room that drew a card
    faults,           \* history: number of calls that raised
    leftSinceFlee,    \* history of legal play: cards played from the room since the last flee
    other             \* the game state of a second session (as gameVars), or <<>>

vars == <<deck, bottomed_cards, room, potions_used, current_life, max_life,
          equipped, last_room_fled, slain_monsters, discard_pile, raised,
          last, fleesSinceNormal, healsSinceDeal, faults, leftSinceFlee, other>>

gameVars == <<deck, bottomed_cards, room, potions_used, current_life, max_life,
              equipped, last_room_fled, slain_monsters, discard_pile>>

\* what no engine or container call writes
aux == <<leftSinceFlee, other>>

----------------------------------------------------------------------------
(* Bounds *)

\* number of cards in a built deck
NumCards == 6

\* longest list handed to Deck.to_bottom by a direct caller
MaxBottom == 3

\* cap on Deck.bottomed_cards for direct Deck calls
MaxBottomed == 4

\* number of raising calls a session goes through
MaxFaults == 1

\* largest amount passed to Player.heal and Player.take_damage
MaxAmount == 3

\* number of steps of random.shuffle that pick their position freely
MaxSwaps == 2

\* number of cards in the decks of the long sessions
LongCards == 10

\* cards in the deck of each of two sessions that share an engine
SharedCards == 4

----------------------------------------------------------------------------
(* Cards *)

CONST_MONSTER == "monster"
CONST_POTION == "potion"
CONST_WEAPON == "weapon"

Suits == {"SPADES", "CLUBS", "DIAMONDS", "HEARTS"}

Monster(s, r) == [type |-> CONST_MONSTER, suit |-> s, rank |-> r]
Potion(s, r) == [type |-> CONST_POTION, suit |-> s, rank |-> r]
Weapon(s, r) == [type |-> CONST_WEAPON, suit |-> s, rank |-> r]

\* f"{suit}_{rank}": injective in (suit, rank), blind to the card's type
card_id(c) == <<c.suit, c.rank>>

strength(c) == c.rank
potency(c) == c.rank
protection(c) == c.rank

\* the cards the deck builders deal with; a built deck holds NumCards of them
CardPool ==
    { Monster("SPADES", 6), Monster("CLUBS", 6), Monster("SPADES", 14),
      Weapon("DIAMONDS", 10), Weapon("DIAMONDS", 2),
      Potion("HEARTS", 6), Potion("HEARTS", 2) }

Ranks == {c.rank : c \in CardPool}

\* every monster value a caller can construct over the ranks in play
AllMonsters == {Monster(s, r) : s \in Suits, r \in Ranks}

\* every potion and weapon value a caller can construct over the ranks in play
AllPotions == {Potion(s, r) : s \in Suits, r \in Ranks}
AllWeapons == {Weapon(s, r) : s \in Suits, r \in Ranks}

----------------------------------------------------------------------------
(* Generic helpers *)

Min(a, b) == IF a < b THEN a ELSE b
Max(a, b) == IF a > b THEN a ELSE b

Range(s) == {s[i] : i \in 1..Len(s)}

RemoveAt(s, i) == SubSeq(s, 1, i - 1) \o SubSeq(s, i + 1, Len(s))

Injective(s) == \A i, j \in 1..Len(s) : i # j => s[i] # s[j]

\* random.shuffle: any order of the same cards
Shuffles(S) == {s \in [1..Cardinality(S) -> S] : Injective(s)}

\* builder.build(shuffle=True): the cards of some preset, in any order
BuiltDecks ==
    UNION {Shuffles(S) : S \in {T \in SUBSET CardPool : Cardinality(T) = NumCards}}

----------------------------------------------------------------------------
(* Deck and Room container methods (scoundrel/models.py) *)

\* mutant of draw: pops the first element (pop(0))
draw_from_bottom(cards) == [card |-> cards[1], cards |-> Tail(cards)]

\* Deck.draw on a non-empty deck: pops the last element
draw(cards) == [card |-> cards[Len(cards)], cards |-> SubSeq(cards, 1, Len(cards) - 1)]

\* mutant of to_bottom: puts the list in front as it is (self.cards = cards + self.cards)
to_bottom_keeps_order(cards, new) == new \o cards

\* mutant of to_bottom: appends to the end of the list, the top (self.cards.append(card))
to_bottom_on_top(cards, new) == cards \o new

\* Deck.to_bottom: for card in cards: self.cards.insert(0, card)
RECURSIVE to_bottom(_, _)
to_bottom(cards, new) ==
    IF new = <<>> THEN cards
    ELSE to_bottom(<<Head(new)>> \o cards, Tail(new))

\* mutant of composition: the weapons count looks for Potion again
composition_weapons_as_potions(cards) ==
    [monsters |-> Cardinality({i \in 1..Len(cards) : cards[i].type = CONST_MONSTER}),
     potions |-> Cardinality({i \in 1..Len(cards) : cards[i].type = CONST_POTION}),
     weapons |-> Cardinality({i \in 1..Len(cards) : cards[i].type = CONST_POTION})]

\* Deck.composition: sum(1 for c in self.cards if isinstance(c, ...)) per kind
composition(cards) ==
    [monsters |-> Cardinality({i \in 1..Len(cards) : cards[i].type = CONST_MONSTER}),
     potions |-> Cardinality({i \in 1..Len(cards) : cards[i].type = CONST_POTION}),
     weapons |-> Cardinality({i \in 1..Len(cards) : cards[i].type = CONST_WEAPON})]

\* DeckComposition.total
total(comp) == comp.monsters + comp.potions + comp.weapons

RECURSIVE draw_all(_)
\* draw() until the deck is empty; the cards in the order they were drawn
draw_all(cards) ==
    IF Len(cards) < 1 THEN <<>>
    ELSE <<draw(cards).card>> \o draw_all(draw(cards).cards)

\* Room.exists: card.card_id in [c.card_id for c in self.cards]
exists(cards, card) == \E i \in 1..Len(cards) : card_id(cards[i]) = card_id(card)

\* index of the first room card with the card's id (0 if there is none)
first_index(cards, card) ==
    IF exists(cards, card)
    THEN CHOOSE i \in 1..Len(cards) :
            /\ card_id(cards[i]) = card_id(card)
            /\ \A j \in 1..(i - 1) : card_id(cards[j]) # card_id(card)
    ELSE 0

\* Room.interacted when a card matches: pops the first match
\* mutant of interacted: every card with the id goes
interacted_every_match(cards, card) ==
    LET Other(c) == card_id(c) # card_id(card) IN SelectSeq(cards, Other)

interacted(cards, card) == RemoveAt(cards, first_index(cards, card))

\* EquippedWeapon(weapon=weapon): a fresh wrapper with an empty history
EquippedWeapon(weapon) == [weapon |-> weapon, slain_monsters |-> <<>>]

\* mutant of last_slain_monster: the first kill (slain_monsters[0])
last_slain_monster_first(w) ==
    IF w.slain_monsters # <<>> THEN <<w.slain_monsters[1]>> ELSE <<>>

\* EquippedWeapon.last_slain_monster: Optional[Monster]
last_slain_monster(w) ==
    IF w.slain_monsters # <<>>
    THEN <<w.slain_monsters[Len(w.slain_monsters)]>>
    ELSE <<>>

\* Player.has_weapon
has_weapon == equipped # <<>>

\* Player.is_dead
is_dead == current_life <= 0

\* GameState.total_slain_count
total_slain_count == Len(slain_monsters)

----------------------------------------------------------------------------
(* StandardRulesEngine queries (scoundrel/engines/rules.py) *)

\* mutant of _weapon_effective: equal rank still counts as effective (<=)
_weapon_effective_or_equal(monster, weapon) ==
    IF last_slain_monster(weapon) = <<>> THEN TRUE
    ELSE monster.rank <= last_slain_monster(weapon)[1].rank

_weapon_effective(monster, weapon) ==
    IF last_slain_monster(weapon) = <<>> THEN TRUE
    ELSE IF monster.rank < last_slain_monster(weapon)[1].rank THEN TRUE
    ELSE FALSE

\* mutant of _monster_damage: the mitigated damage is not clamped at 0
_monster_damage_unclamped(monster, weapon, use_weapon) ==
    IF ~use_weapon THEN strength(monster)
    ELSE IF weapon = <<>> THEN strength(monster)
    ELSE IF _weapon_effective(monster, weapon[1])
         THEN strength(monster) - protection(weapon[1].weapon)
         ELSE strength(monster)

\* weapon is Optional[EquippedWeapon]
_monster_damage(monster, weapon, use_weapon) ==
    IF ~use_weapon THEN strength(monster)
    ELSE IF weapon = <<>> THEN strength(monster)
    ELSE IF _weapon_effective(monster, weapon[1])
         THEN Max(0, strength(monster) - protection(weapon[1].weapon))
         ELSE strength(monster)

ActionPreview(d, h, l) == [damage_taken |-> d, healing_received |-> h, is_lethal |-> l]

preview_attack(monster, use_weapon) ==
    LET damage == _monster_damage(monster, equipped, use_weapon)
    IN  ActionPreview(damage, 0, damage >= current_life)

\* mutant of can_attack_monster: the weapon's kill history is not consulted
can_attack_monster_any_weapon(monster, use_weapon) ==
    IF ~exists(room, monster) THEN FALSE
    ELSE IF use_weapon /\ ~has_weapon THEN FALSE
    ELSE TRUE

can_attack_monster(monster, use_weapon) ==
    IF ~exists(room, monster) THEN FALSE
    ELSE IF use_weapon /\ ~has_weapon THEN FALSE
    ELSE IF use_weapon /\ equipped # <<>> /\ ~_weapon_effective(monster, equipped[1]) THEN FALSE
    ELSE TRUE

\* mutant of preview_potion: the heal is the potion's full potency
preview_potion_uncapped(potion) ==
    IF potions_used > 0 THEN ActionPreview(0, 0, FALSE)
    ELSE ActionPreview(0, potency(potion), FALSE)

\* mutant of preview_potion: potions_used is not looked at
preview_potion_every_potion_heals(potion) ==
    LET potential_new_hp == Min(max_life, current_life + potency(potion))
    IN  ActionPreview(0, potential_new_hp - current_life, FALSE)

preview_potion(potion) ==
    IF potions_used > 0 THEN ActionPreview(0, 0, FALSE)
    ELSE LET potential_new_hp == Min(max_life, current_life + potency(potion))
         IN  ActionPreview(0, potential_new_hp - current_life, FALSE)

\* mutant of can_drink_potion: a dead player cannot drink
can_drink_potion_alive(potion) == exists(room, potion) /\ ~is_dead

can_drink_potion(potion) == exists(room, potion)

can_equip_weapon(weapon) == exists(room, weapon)

\* mutant of can_flee_room: the flee flag is not consulted
can_flee_room_any_full_room == Len(room) = 4

can_flee_room ==
    IF Len(room) # 4 THEN FALSE
    ELSE IF last_room_fled THEN FALSE
    ELSE TRUE

next_room_available == Len(room) <= 1

\* the refill loop of handle_next_room:
\* while len(room.cards) < 4 and deck.remaining > 0: room.cards.append(deck.draw())
\* Deck.draw raises DeckEmptyError on an empty deck; the cards appended so far stay
RECURSIVE refill_until_full(_, _)
\* mutant of refill: the loop only looks at the room (while len(room.cards) < 4)
refill_until_full(r, d) ==
    IF Len(r) < 4
    THEN IF Len(d) < 1
         THEN [room |-> r, deck |-> d, raised |-> "DeckEmptyError"]
         ELSE refill_until_full(Append(r, draw(d).card), draw(d).cards)
    ELSE [room |-> r, deck |-> d, raised |-> "none"]

RECURSIVE refill(_, _)
refill(r, d) ==
    IF Len(r) < 4 /\ Len(d) > 0
    THEN IF Len(d) < 1
         THEN [room |-> r, deck |-> d, raised |-> "DeckEmptyError"]
         ELSE refill(Append(r, draw(d).card), draw(d).cards)
    ELSE [room |-> r, deck |-> d, raised |-> "none"]

RECURSIVE SumOf(_, _, _)
\* sum(f(card) for card in cards if card.type == t), f being the rank-derived power
SumOf(cards, t, i) ==
    IF i > Len(cards) THEN 0
    ELSE (IF cards[i].type = t THEN cards[i].rank ELSE 0) + SumOf(cards, t, i + 1)

\* mutant of is_game_over: the monsters in the room count as well
is_game_over_counts_room ==
    IF current_life > 0 THEN <<>>
    ELSE <<current_life - SumOf(deck \o room, CONST_MONSTER, 1)>>

\* Optional[HighScore]
is_game_over ==
    IF current_life > 0 THEN <<>>
    ELSE <<current_life - SumOf(deck, CONST_MONSTER, 1)>>

\* mutant of is_victory: the room has to be empty
is_victory_needs_empty_room ==
    IF Len(deck) > 0 THEN <<>>
    ELSE IF Len(room) > 0 THEN <<>>
    ELSE <<current_life + SumOf(room, CONST_POTION, 1)>>

is_victory ==
    IF Len(deck) > 0 THEN <<>>
    ELSE IF Len(room) > 1 THEN <<>>
    ELSE <<current_life + SumOf(room, CONST_POTION, 1)>>

----------------------------------------------------------------------------
(* Construction *)

\* a call record; life, potions and equipped are the values the call found
Call(op, cards, use_weapon, ok) ==
    [op |-> op, cards |-> cards, use_weapon |-> use_weapon, ok |-> ok,
     life |-> current_life, potions |-> potions_used, equipped |-> equipped,
     amount |-> 0]

\* GameState(player=Player(...), deck=builder.build(shuffle=True), room=Room())
\* GameState(player=Player(), deck=Deck(cards=d), room=Room(cards=r)), next to
\* a second game state o (or none)
Sessions(d, r, o) ==
    /\ deck = d
    /\ bottomed_cards = 0
    /\ room = r
    /\ potions_used = 0
    /\ current_life = 20
    /\ max_life = 20
    /\ equipped = <<>>
    /\ last_room_fled = FALSE
    /\ slain_monsters = <<>>
    /\ discard_pile = <<>>
    /\ raised = "none"
    /\ last = Call("init", <<>>, FALSE, TRUE)
    /\ fleesSinceNormal = 0
    /\ healsSinceDeal = 0
    /\ faults = 0
    /\ leftSinceFlee = 0
    /\ other = o

Start(d, r) == Sessions(d, r, <<>>)

Init == \E d \in BuiltDecks : Start(d, <<>>)

----------------------------------------------------------------------------
(* StandardRulesEngine mutators.  Room.interacted raises ValueError when no *)
(* room card has the card's id; what was written before it stays written. *)

\* mutant of handle_monster_attack: goes through Player.take_damage (clamped at 0)
handle_monster_attack_take_damage(monster, use_weapon) ==
    LET preview == preview_attack(monster, use_weapon) IN
    /\ current_life' = Max(0, current_life - preview.damage_taken)
    /\ equipped' = IF use_weapon /\ equipped # <<>>
                   THEN <<[equipped[1] EXCEPT !.slain_monsters = Append(@, monster)]>>
                   ELSE equipped
    /\ room' = IF exists(room, monster) THEN interacted(room, monster) ELSE room
    /\ raised' = IF exists(room, monster) THEN "none" ELSE "ValueError"
    /\ faults' = IF exists(room, monster) THEN faults ELSE faults + 1
    /\ last' = Call("handle_monster_attack", <<monster>>, use_weapon, exists(room, monster))
    /\ UNCHANGED <<deck, bottomed_cards, potions_used, max_life, last_room_fled,
                   slain_monsters, discard_pile, fleesSinceNormal, healsSinceDeal>>

\* mutant of handle_monster_attack: records the kill whenever a weapon is equipped
handle_monster_attack_always_records(monster, use_weapon) ==
    LET preview == preview_attack(monster, use_weapon) IN
    /\ current_life' = current_life - preview.damage_taken
    /\ equipped' = IF equipped # <<>>
                   THEN <<[equipped[1] EXCEPT !.slain_monsters = Append(@, monster)]>>
                   ELSE equipped
    /\ room' = IF exists(room, monster) THEN interacted(room, monster) ELSE room
    /\ raised' = IF exists(room, monster) THEN "none" ELSE "ValueError"
    /\ faults' = IF exists(room, monster) THEN faults ELSE faults + 1
    /\ last' = Call("handle_monster_attack", <<monster>>, use_weapon, exists(room, monster))
    /\ UNCHANGED <<deck, bottomed_cards, potions_used, max_life, last_room_fled,
                   slain_monsters, discard_pile, fleesSinceNormal, healsSinceDeal>>

\* mutant of handle_monster_attack: an ineffective weapon records no kill
handle_monster_attack_rechecks(monster, use_weapon) ==
    LET preview == preview_attack(monster, use_weapon) IN
    /\ current_life' = current_life - preview.damage_taken
    /\ equipped' = IF use_weapon /\ equipped # <<>> /\ _weapon_effective(monster, equipped[1])
                   THEN <<[equipped[1] EXCEPT !.slain_monsters = Append(@, monster)]>>
                   ELSE equipped
    /\ room' = IF exists(room, monster) THEN interacted(room, monster) ELSE room
    /\ raised' = IF exists(room, monster) THEN "none" ELSE "ValueError"
    /\ faults' = IF exists(room, monster) THEN faults ELSE faults + 1
    /\ last' = Call("handle_monster_attack", <<monster>>, use_weapon, exists(room, monster))
    /\ UNCHANGED <<deck, bottomed_cards, potions_used, max_life, last_room_fled,
                   slain_monsters, discard_pile, fleesSinceNormal, healsSinceDeal>>

handle_monster_attack(monster, use_weapon) ==
    LET preview == preview_attack(monster, use_weapon) IN
    /\ current_life' = current_life - preview.damage_taken
    /\ equipped' = IF use_weapon /\ equipped # <<>>
                   THEN <<[equipped[1] EXCEPT !.slain_monsters = Append(@, monster)]>>
                   ELSE equipped
    /\ room' = IF exists(room, monster) THEN interacted(room, monster) ELSE room
    /\ raised' = IF exists(room, monster) THEN "none" ELSE "ValueError"
    /\ faults' = IF exists(room, monster) THEN faults ELSE faults + 1
    /\ last' = Call("handle_monster_attack", <<monster>>, use_weapon, exists(room, monster))
    /\ UNCHANGED <<deck, bottomed_cards, potions_used, max_life, last_room_fled,
                   slain_monsters, discard_pile, fleesSinceNormal, healsSinceDeal>>

\* mutant of handle_drink_potion: only a potion that healed counts as used
handle_drink_potion_counts_heals(potion) ==
    LET preview == preview_potion(potion) IN
    /\ current_life' = current_life + preview.healing_received
    /\ potions_used' = IF preview.healing_received > 0 THEN potions_used + 1
                       ELSE potions_used
    /\ room' = IF exists(room, potion) THEN interacted(room, potion) ELSE room
    /\ raised' = IF exists(room, potion) THEN "none" ELSE "ValueError"
    /\ faults' = IF exists(room, potion) THEN faults ELSE faults + 1
    /\ healsSinceDeal' = IF preview.healing_received # 0 THEN healsSinceDeal + 1
                         ELSE healsSinceDeal
    /\ last' = Call("handle_drink_potion", <<potion>>, FALSE, exists(room, potion))
    /\ UNCHANGED <<deck, bottomed_cards, max_life, equipped, last_room_fled,
                   slain_monsters, discard_pile, fleesSinceNormal>>

\* mutant of handle_drink_potion: the presence check comes before the writes
handle_drink_potion_checks_first(potion) ==
    LET preview == preview_potion(potion) IN
    /\ current_life' = IF exists(room, potion)
                       THEN current_life + preview.healing_received ELSE current_life
    /\ potions_used' = IF exists(room, potion) THEN potions_used + 1 ELSE potions_used
    /\ room' = IF exists(room, potion) THEN interacted(room, potion) ELSE room
    /\ raised' = IF exists(room, potion) THEN "none" ELSE "ValueError"
    /\ faults' = IF exists(room, potion) THEN faults ELSE faults + 1
    /\ healsSinceDeal' = IF exists(room, potion) /\ preview.healing_received # 0
                         THEN healsSinceDeal + 1 ELSE healsSinceDeal
    /\ last' = Call("handle_drink_potion", <<potion>>, FALSE, exists(room, potion))
    /\ UNCHANGED <<deck, bottomed_cards, max_life, equipped, last_room_fled,
                   slain_monsters, discard_pile, fleesSinceNormal>>

handle_drink_potion(potion) ==
    LET preview == preview_potion(potion) IN
    /\ current_life' = current_life + preview.healing_received
    /\ potions_used' = potions_used + 1
    /\ room' = IF exists(room, potion) THEN interacted(room, potion) ELSE room
    /\ raised' = IF exists(room, potion) THEN "none" ELSE "ValueError"
    /\ faults' = IF exists(room, potion) THEN faults ELSE faults + 1
    /\ healsSinceDeal' = IF preview.healing_received # 0 THEN healsSinceDeal + 1
                         ELSE healsSinceDeal
    /\ last' = Call("handle_drink_potion", <<potion>>, FALSE, exists(room, potion))
    /\ UNCHANGED <<deck, bottomed_cards, max_life, equipped, last_room_fled,
                   slain_monsters, discard_pile, fleesSinceNormal>>

\* mutant of handle_equip_weapon: swaps the card of the wrapper already equipped
handle_equip_weapon_keeps_history(weapon) ==
    /\ raised' = "none"
    /\ last' = Call("handle_equip_weapon", <<weapon>>, FALSE, can_equip_weapon(weapon))
    /\ IF ~can_equip_weapon(weapon)
       THEN UNCHANGED <<equipped, room>>
       ELSE /\ equipped' = IF equipped # <<>>
                           THEN <<[equipped[1] EXCEPT !.weapon = weapon]>>
                           ELSE <<EquippedWeapon(weapon)>>
            /\ room' = interacted(room, weapon)
    /\ UNCHANGED <<deck, bottomed_cards, potions_used, current_life, max_life,
                   last_room_fled, slain_monsters, discard_pile, fleesSinceNormal,
                   healsSinceDeal, faults>>

\* mutant of handle_equip_weapon: no can_equip_weapon check
handle_equip_weapon_unchecked(weapon) ==
    /\ raised' = IF exists(room, weapon) THEN "none" ELSE "ValueError"
    /\ last' = Call("handle_equip_weapon", <<weapon>>, FALSE, can_equip_weapon(weapon))
    /\ equipped' = <<EquippedWeapon(weapon)>>
    /\ room' = IF exists(room, weapon) THEN interacted(room, weapon) ELSE room
    /\ UNCHANGED <<deck, bottomed_cards, potions_used, current_life, max_life,
                   last_room_fled, slain_monsters, discard_pile, fleesSinceNormal,
                   healsSinceDeal, faults>>

handle_equip_weapon(weapon) ==
    /\ raised' = "none"
    /\ last' = Call("handle_equip_weapon", <<weapon>>, FALSE, can_equip_weapon(weapon))
    /\ IF ~can_equip_weapon(weapon)
       THEN UNCHANGED <<equipped, room>>
       ELSE /\ equipped' = <<EquippedWeapon(weapon)>>
            /\ room' = interacted(room, weapon)
    /\ UNCHANGED <<deck, bottomed_cards, potions_used, current_life, max_life,
                   last_room_fled, slain_monsters, discard_pile, fleesSinceNormal,
                   healsSinceDeal, faults>>

\* mutant of handle_flee_room: the room list is not emptied
handle_flee_room_keeps_room ==
    /\ raised' = "none"
    /\ last' = Call("handle_flee_room", room, FALSE, can_flee_room)
    /\ IF ~can_flee_room
       THEN UNCHANGED <<deck, bottomed_cards, room, last_room_fled, fleesSinceNormal>>
       ELSE /\ deck' = to_bottom(deck, room)
            /\ bottomed_cards' = bottomed_cards + Len(room)
            /\ room' = room
            /\ last_room_fled' = TRUE
            /\ fleesSinceNormal' = fleesSinceNormal + 1
    /\ UNCHANGED <<potions_used, current_life, max_life, equipped,
                   slain_monsters, discard_pile, healsSinceDeal, faults>>

handle_flee_room ==
    /\ raised' = "none"
    /\ last' = Call("handle_flee_room", room, FALSE, can_flee_room)
    /\ IF ~can_flee_room
       THEN UNCHANGED <<deck, bottomed_cards, room, last_room_fled, fleesSinceNormal>>
       ELSE /\ deck' = to_bottom(deck, room)
            /\ bottomed_cards' = bottomed_cards + Len(room)
            /\ room' = <<>>
            /\ last_room_fled' = TRUE
            /\ fleesSinceNormal' = fleesSinceNormal + 1
    /\ UNCHANGED <<potions_used, current_life, max_life, equipped,
                   slain_monsters, discard_pile, healsSinceDeal, faults>>

\* mutant of handle_next_room: the flee flag is cleared on every transition
handle_next_room_always_rearms ==
    /\ raised' = IF next_room_available THEN refill(room, deck).raised ELSE "none"
    /\ last' = Call("handle_next_room", <<>>, FALSE, next_room_available)
    /\ faults' = IF next_room_available /\ refill(room, deck).raised # "none"
                 THEN faults + 1 ELSE faults
    /\ IF ~next_room_available
       THEN UNCHANGED <<deck, room, potions_used, last_room_fled, fleesSinceNormal,
                        healsSinceDeal>>
       ELSE /\ last_room_fled' = FALSE
            /\ fleesSinceNormal' = IF Len(room) # 0 THEN 0 ELSE fleesSinceNormal
            /\ potions_used' = 0
            /\ room' = refill(room, deck).room
            /\ deck' = refill(room, deck).deck
            /\ healsSinceDeal' = IF refill(room, deck).room # room THEN 0
                                 ELSE healsSinceDeal
    /\ UNCHANGED <<bottomed_cards, current_life, max_life, equipped,
                   slain_monsters, discard_pile>>

\* mutant of handle_next_room: potions_used is not reset
handle_next_room_keeps_potions ==
    /\ raised' = IF next_room_available THEN refill(room, deck).raised ELSE "none"
    /\ last' = Call("handle_next_room", <<>>, FALSE, next_room_available)
    /\ faults' = IF next_room_available /\ refill(room, deck).raised # "none"
                 THEN faults + 1 ELSE faults
    /\ IF ~next_room_available
       THEN UNCHANGED <<deck, room, potions_used, last_room_fled, fleesSinceNormal,
                        healsSinceDeal>>
       ELSE /\ last_room_fled' = IF Len(room) # 0 THEN FALSE ELSE last_room_fled
            /\ fleesSinceNormal' = IF Len(room) # 0 THEN 0 ELSE fleesSinceNormal
            /\ potions_used' = potions_used
            /\ room' = refill(room, deck).room
            /\ deck' = refill(room, deck).deck
            /\ healsSinceDeal' = IF refill(room, deck).room # room THEN 0
                                 ELSE healsSinceDeal
    /\ UNCHANGED <<bottomed_cards, current_life, max_life, equipped,
                   slain_monsters, discard_pile>>

\* mutant of handle_next_room: no next_room_available check
handle_next_room_unchecked ==
    /\ raised' = refill(room, deck).raised
    /\ last' = Call("handle_next_room", <<>>, FALSE, next_room_available)
    /\ faults' = IF refill(room, deck).raised # "none" THEN faults + 1 ELSE faults
    /\ last_room_fled' = IF Len(room) # 0 THEN FALSE ELSE last_room_fled
    /\ fleesSinceNormal' = IF Len(room) # 0 THEN 0 ELSE fleesSinceNormal
    /\ potions_used' = 0
    /\ room' = refill(room, deck).room
    /\ deck' = refill(room, deck).deck
    /\ healsSinceDeal' = IF refill(room, deck).room # room THEN 0 ELSE healsSinceDeal
    /\ UNCHANGED <<bottomed_cards, current_life, max_life, equipped,
                   slain_monsters, discard_pile>>

handle_next_room ==
    /\ raised' = IF next_room_available THEN refill(room, deck).raised ELSE "none"
    /\ last' = Call("handle_next_room", <<>>, FALSE, next_room_available)
    /\ faults' = IF next_room_available /\ refill(room, deck).raised # "none"
                 THEN faults + 1 ELSE faults
    /\ IF ~next_room_available
       THEN UNCHANGED <<deck, room, potions_used, last_room_fled, fleesSinceNormal,
                        healsSinceDeal>>
       ELSE /\ last_room_fled' = IF Len(room) # 0 THEN FALSE ELSE last_room_fled
            /\ fleesSinceNormal' = IF Len(room) # 0 THEN 0 ELSE fleesSinceNormal
            /\ potions_used' = 0
            /\ room' = refill(room, deck).room
            /\ deck' = refill(room, deck).deck
            /\ healsSinceDeal' = IF refill(room, deck).room # room THEN 0
                                 ELSE healsSinceDeal
    /\ UNCHANGED <<bottomed_cards, current_life, max_life, equipped,
                   slain_monsters, discard_pile>>

----------------------------------------------------------------------------
(* The engine API driven by any caller: every mutator may be called at any  *)
(* time on any card of the room, whether or not its can_* query allows it.  *)

RoomCards(t) == {c \in Range(room) : c.type = t}

Attack ==
    /\ \E m \in RoomCards(CONST_MONSTER), uw \in BOOLEAN : handle_monster_attack(m, uw)
    /\ UNCHANGED aux

Drink ==
    /\ \E p \in RoomCards(CONST_POTION) : handle_drink_potion(p)
    /\ UNCHANGED aux

Equip ==
    /\ \E w \in RoomCards(CONST_WEAPON) : handle_equip_weapon(w)
    /\ UNCHANGED aux

Flee == handle_flee_room /\ UNCHANGED aux

NextRoom == handle_next_room /\ UNCHANGED aux

Next == Attack \/ Drink \/ Equip \/ Flee \/ NextRoom

Spec == Init /\ [][Next]_vars

----------------------------------------------------------------------------
(* Legal play: the caller commits a mutator only when its query allows it   *)
(* and ends the session once is_game_over or is_victory returns a score.    *)

\* mutant of main: the victory screen is tested before the game-over screen
main_victory_first ==
    LET over_score == is_game_over
        victory_score == is_victory
    IN  IF victory_score # <<>> THEN "victory"
        ELSE IF over_score # <<>> THEN "game-over"
        ELSE "room"

\* what one rerun of the Streamlit page shows (ui/app.py, main)
main ==
    LET over_score == is_game_over
        victory_score == is_victory
    IN  IF over_score # <<>> THEN "game-over"
        ELSE IF victory_score # <<>> THEN "victory"
        ELSE "room"

\* what ScoundrelCLI.play does at the top of its loop: the loop runs while the
\* player is not dead and breaks on a victory score; after the loop a
\* game-over score is printed if there is one
play ==
    IF ~is_dead
    THEN IF is_victory # <<>> THEN "victory" ELSE "room"
    ELSE IF is_game_over # <<>> THEN "game-over" ELSE "end"

SessionOver == is_game_over # <<>> \/ is_victory # <<>>

LegalAttack ==
    /\ ~SessionOver
    /\ \E m \in RoomCards(CONST_MONSTER), uw \in BOOLEAN :
          can_attack_monster(m, uw) /\ handle_monster_attack(m, uw)
    /\ leftSinceFlee' = leftSinceFlee + 1
    /\ UNCHANGED other

LegalDrink ==
    /\ ~SessionOver
    /\ \E p \in RoomCards(CONST_POTION) : can_drink_potion(p) /\ handle_drink_potion(p)
    /\ leftSinceFlee' = leftSinceFlee + 1
    /\ UNCHANGED other

LegalEquip ==
    /\ ~SessionOver
    /\ \E w \in RoomCards(CONST_WEAPON) : can_equip_weapon(w) /\ handle_equip_weapon(w)
    /\ leftSinceFlee' = leftSinceFlee + 1
    /\ UNCHANGED other

LegalFlee ==
    /\ ~SessionOver
    /\ can_flee_room
    /\ handle_flee_room
    /\ leftSinceFlee' = 0
    /\ UNCHANGED other

LegalNextRoom ==
    /\ ~SessionOver
    /\ next_room_available
    /\ handle_next_room
    /\ UNCHANGED aux

NextLegal == LegalAttack \/ LegalDrink \/ LegalEquip \/ LegalFlee \/ LegalNextRoom

SpecLegal == Init /\ [][NextLegal]_vars

----------------------------------------------------------------------------
(* Legal play with decks long enough for a second flee *)

LongPool ==
    << Potion("HEARTS", 9), Monster("CLUBS", 3), Weapon("DIAMONDS", 5),
       Monster("SPADES", 2), Potion("HEARTS", 2), Weapon("DIAMONDS", 2),
       Monster("CLUBS", 6), Monster("SPADES", 14), Potion("HEARTS", 6),
       Weapon("DIAMONDS", 10), Monster("SPADES", 6), Monster("CLUBS", 11) >>

\* LongCards consecutive cards of LongPool, from any position, wrapping round
LongDecks ==
    {SubSeq(LongPool \o LongPool, k, k + LongCards - 1) : k \in 1..Len(LongPool)}

InitLong == \E d \in LongDecks : Start(d, <<>>)

SpecLong == InitLong /\ [][NextLegal]_vars

----------------------------------------------------------------------------
(* Unchecked calls: the caller also passes a mutator a card that is not in  *)
(* the room (a stale reference to a card still in the deck or already      *)
(* played).  A raised exception does not end the session.                   *)

(* These sessions start from the decks whose shuffle left the cards in the  *)
(* order below (first element = bottom).                                    *)

PoolOrder ==
    << Potion("HEARTS", 2), Weapon("DIAMONDS", 2), Monster("CLUBS", 6),
       Monster("SPADES", 14), Potion("HEARTS", 6), Weapon("DIAMONDS", 10),
       Monster("SPADES", 6) >>

OrderedDecks ==
    { LET In(c) == c \in S IN SelectSeq(PoolOrder, In) :
        S \in {T \in SUBSET CardPool : Cardinality(T) = NumCards} }

InitAny == \E d \in OrderedDecks : Start(d, <<>>)

AbsentCards(t) == {c \in CardPool : c.type = t /\ ~exists(room, c)}

AttackAbsent ==
    /\ faults < MaxFaults
    /\ \E m \in AbsentCards(CONST_MONSTER), uw \in BOOLEAN : handle_monster_attack(m, uw)
    /\ UNCHANGED aux

DrinkAbsent ==
    /\ faults < MaxFaults
    /\ \E p \in AbsentCards(CONST_POTION) : handle_drink_potion(p)
    /\ UNCHANGED aux

EquipAbsent ==
    /\ \E w \in AbsentCards(CONST_WEAPON) : handle_equip_weapon(w)
    /\ UNCHANGED aux

NextAny == Next \/ AttackAbsent \/ DrinkAbsent \/ EquipAbsent

SpecAny == InitAny /\ [][NextAny]_vars

----------------------------------------------------------------------------
(* Two sessions on one engine: the engine object has no attribute, so a     *)
(* call reads and writes the state it is passed and nothing else.  The      *)
(* caller hands the engine either state, in any interleaving.               *)

\* gameVars of GameState(player=Player(), deck=Deck(cards=d), room=Room())
Fresh(d) == <<d, 0, <<>>, 0, 20, 20, <<>>, FALSE, <<>>, <<>>>>

\* both sessions are dealt from a run of SharedCards cards of the order above
SharedDecks ==
    {SubSeq(PoolOrder, k, k + SharedCards - 1) : k \in 1..(Len(PoolOrder) - SharedCards + 1)}

InitShared == \E d \in SharedDecks, e \in SharedDecks : Sessions(d, <<>>, Fresh(e))

\* mutant of Switch: potions_used lives in the engine, not in the Room
Switch_potions_used_in_engine ==
    /\ other # <<>>
    /\ deck' = other[1]
    /\ bottomed_cards' = other[2]
    /\ room' = other[3]
    /\ potions_used' = potions_used
    /\ current_life' = other[5]
    /\ max_life' = other[6]
    /\ equipped' = other[7]
    /\ last_room_fled' = other[8]
    /\ slain_monsters' = other[9]
    /\ discard_pile' = other[10]
    /\ other' = gameVars
    /\ last' = Call("switch", <<>>, FALSE, TRUE)
    /\ UNCHANGED <<raised, fleesSinceNormal, healsSinceDeal, faults, leftSinceFlee>>

\* the next call is passed the other state
Switch ==
    /\ other # <<>>
    /\ deck' = other[1]
    /\ bottomed_cards' = other[2]
    /\ room' = other[3]
    /\ potions_used' = other[4]
    /\ current_life' = other[5]
    /\ max_life' = other[6]
    /\ equipped' = other[7]
    /\ last_room_fled' = other[8]
    /\ slain_monsters' = other[9]
    /\ discard_pile' = other[10]
    /\ other' = gameVars
    /\ last' = Call("switch", <<>>, FALSE, TRUE)
    /\ UNCHANGED <<raised, fleesSinceNormal, healsSinceDeal, faults, leftSinceFlee>>

NextShared == NextLegal \/ Switch

SpecShared == InitShared /\ [][NextShared]_vars

----------------------------------------------------------------------------
(* The Deck container driven directly: draw() and to_bottom(cards) on a     *)
(* built deck, the bottomed cards being cards that are not in the deck.     *)

ListsOver(S, n) == UNION {{s \in [1..k -> S] : Injective(s)} : k \in 0..n}

DeckDraw ==
    /\ IF Len(deck) < 1
       THEN /\ faults < MaxFaults
            /\ raised' = "DeckEmptyError"
            /\ last' = Call("draw", <<>>, FALSE, FALSE)
            /\ faults' = faults + 1
            /\ UNCHANGED deck
       ELSE /\ raised' = "none"
            /\ last' = Call("draw", <<draw(deck).card>>, FALSE, TRUE)
            /\ deck' = draw(deck).cards
            /\ UNCHANGED faults
    /\ UNCHANGED <<bottomed_cards, room, potions_used, current_life, max_life, equipped,
                   last_room_fled, slain_monsters, discard_pile, fleesSinceNormal,
                   healsSinceDeal, aux>>

\* mutant of DeckToBottom: bottomed_cards counts calls
DeckToBottom_counts_calls ==
    \E cards \in ListsOver(CardPool \ Range(deck), MaxBottom) :
        /\ bottomed_cards + Len(cards) <= MaxBottomed
        /\ deck' = to_bottom(deck, cards)
        /\ bottomed_cards' = bottomed_cards + 1
        /\ raised' = "none"
        /\ last' = Call("to_bottom", cards, FALSE, TRUE)
        /\ UNCHANGED <<room, potions_used, current_life, max_life, equipped,
                       last_room_fled, slain_monsters, discard_pile, fleesSinceNormal,
                       healsSinceDeal, faults, aux>>

DeckToBottom ==
    \E cards \in ListsOver(CardPool \ Range(deck), MaxBottom) :
        /\ bottomed_cards + Len(cards) <= MaxBottomed
        /\ deck' = to_bottom(deck, cards)
        /\ bottomed_cards' = bottomed_cards + Len(cards)
        /\ raised' = "none"
        /\ last' = Call("to_bottom", cards, FALSE, TRUE)
        /\ UNCHANGED <<room, potions_used, current_life, max_life, equipped,
                       last_room_fled, slain_monsters, discard_pile, fleesSinceNormal,
                       healsSinceDeal, faults, aux>>

\* every card is drawn and the drawn cards are handed to to_bottom
DeckRoundTrip ==
    LET drawn == draw_all(deck) IN
    /\ Len(deck) >= 1
    /\ bottomed_cards + Len(drawn) <= MaxBottomed
    /\ deck' = to_bottom(<<>>, drawn)
    /\ bottomed_cards' = bottomed_cards + Len(drawn)
    /\ raised' = "none"
    /\ last' = Call("round_trip", drawn, FALSE, TRUE)
    /\ UNCHANGED <<room, potions_used, current_life, max_life, equipped,
                   last_room_fled, slain_monsters, discard_pile, fleesSinceNormal,
                   healsSinceDeal, faults, aux>>

NextDeck == DeckDraw \/ DeckToBottom \/ DeckRoundTrip

SpecDeck == Init /\ [][NextDeck]_vars

----------------------------------------------------------------------------
(* Room used on its own: Room(cards=[...]) over any list of at most 4 cards, *)
(* repeated cards included, and interacted called with any card.            *)

RoomPool == {Monster("SPADES", 6), Monster("CLUBS", 6), Monster("SPADES", 14)}

Rooms == UNION {[1..k -> RoomPool] : k \in 0..4}

InitRoom == \E r \in Rooms : Start(<<>>, r)

RoomInteracted ==
    \E card \in CardPool :
        /\ IF exists(room, card)
           THEN /\ room' = interacted(room, card)
                /\ raised' = "none"
                /\ UNCHANGED faults
           ELSE /\ faults < MaxFaults
                /\ raised' = "ValueError"
                /\ faults' = faults + 1
                /\ UNCHANGED room
        /\ last' = Call("interacted", <<card>>, FALSE, exists(room, card))
        /\ UNCHANGED <<deck, bottomed_cards, potions_used, current_life, max_life,
                       equipped, last_room_fled, slain_monsters, discard_pile,
                       fleesSinceNormal, healsSinceDeal, aux>>

NextRoomOnly == RoomInteracted

SpecRoom == InitRoom /\ [][NextRoomOnly]_vars

----------------------------------------------------------------------------
(* Player used on its own: heal and take_damage with any amount *)

Amounts == (0 - 2)..MaxAmount

heal(amount) ==
    /\ IF amount < 0
       THEN /\ faults < MaxFaults
            /\ raised' = "ValueError"
            /\ faults' = faults + 1
            /\ UNCHANGED current_life
       ELSE /\ current_life' = Min(max_life, current_life + amount)
            /\ raised' = "none"
            /\ UNCHANGED faults
    /\ last' = [Call("heal", <<>>, FALSE, amount >= 0) EXCEPT !.amount = amount]
    /\ UNCHANGED <<deck, bottomed_cards, room, potions_used, max_life, equipped,
                   last_room_fled, slain_monsters, discard_pile, fleesSinceNormal,
                   healsSinceDeal, aux>>

\* mutant of take_damage: no clamp at zero
take_damage_unclamped(amount) ==
    /\ IF amount < 0
       THEN /\ faults < MaxFaults
            /\ raised' = "ValueError"
            /\ faults' = faults + 1
            /\ UNCHANGED current_life
       ELSE /\ current_life' = current_life - amount
            /\ raised' = "none"
            /\ UNCHANGED faults
    /\ last' = [Call("take_damage", <<>>, FALSE, amount >= 0) EXCEPT !.amount = amount]
    /\ UNCHANGED <<deck, bottomed_cards, room, potions_used, max_life, equipped,
                   last_room_fled, slain_monsters, discard_pile, fleesSinceNormal,
                   healsSinceDeal, aux>>

take_damage(amount) ==
    /\ IF amount < 0
       THEN /\ faults < MaxFaults
            /\ raised' = "ValueError"
            /\ faults' = faults + 1
            /\ UNCHANGED current_life
       ELSE /\ current_life' = Max(0, current_life - amount)
            /\ raised' = "none"
            /\ UNCHANGED faults
    /\ last' = [Call("take_damage", <<>>, FALSE, amount >= 0) EXCEPT !.amount = amount]
    /\ UNCHANGED <<deck, bottomed_cards, room, potions_used, max_life, equipped,
                   last_room_fled, slain_monsters, discard_pile, fleesSinceNormal,
                   healsSinceDeal, aux>>

InitPlayer == Start(<<>>, <<>>)

PlayerHeal == \E amount \in Amounts : heal(amount)

PlayerTakeDamage == \E amount \in Amounts : take_damage(amount)

NextPlayer == PlayerHeal \/ PlayerTakeDamage

SpecPlayer == InitPlayer /\ [][NextPlayer]_vars

----------------------------------------------------------------------------
(* StandardDeckBuilder.build (scoundrel/builders/decks.py) *)

\* mutant of StandardCards: the weapons loop stops one rank early
StandardCards_weapons_to_nine ==
    [r \in 1..9 |-> Potion("HEARTS", r + 1)]
    \o [r \in 1..8 |-> Weapon("DIAMONDS", r + 1)]
    \o [r \in 1..13 |-> Monster("SPADES", r + 1)]
    \o [r \in 1..13 |-> Monster("CLUBS", r + 1)]

\* the cards list before shuffling: range(2, 11), range(2, 11), 2 x range(2, 15)
StandardCards ==
    [r \in 1..9 |-> Potion("HEARTS", r + 1)]
    \o [r \in 1..9 |-> Weapon("DIAMONDS", r + 1)]
    \o [r \in 1..13 |-> Monster("SPADES", r + 1)]
    \o [r \in 1..13 |-> Monster("CLUBS", r + 1)]

\* x[i], x[j] = x[j], x[i]
Swap(cards, i, j) == [cards EXCEPT ![i] = cards[j], ![j] = cards[i]]

\* the positions random.shuffle picks: step k swaps index n - k + 1 with some
\* index at or below it; steps after MaxSwaps pick the index itself
SwapChoices(n) ==
    {js \in [1..MaxSwaps -> 1..n] : \A k \in 1..MaxSwaps : js[k] <= n - k + 1}

RECURSIVE shuffle(_, _, _)
\* Deck.shuffle (random.shuffle) with the picks js, from step k on
shuffle(cards, js, k) ==
    IF k > Len(js) \/ Len(cards) - k + 1 <= 1 THEN cards
    ELSE shuffle(Swap(cards, Len(cards) - k + 1, js[k]), js, k + 1)

InitBuild == Start(<<>>, <<>>)

StandardBuild ==
    /\ deck = <<>>
    /\ \E sh \in BOOLEAN, js \in SwapChoices(Len(StandardCards)) :
          deck' = IF sh THEN shuffle(StandardCards, js, 1) ELSE StandardCards
    /\ raised' = IF total(composition(StandardCards)) = 44 THEN "none"
                 ELSE "AssertionError"
    /\ last' = Call("build", <<>>, FALSE, total(composition(StandardCards)) = 44)
    /\ UNCHANGED <<bottomed_cards, room, potions_used, current_life, max_life,
                   equipped, last_room_fled, slain_monsters, discard_pile,
                   fleesSinceNormal, healsSinceDeal, faults, aux>>

NextBuild == StandardBuild

SpecBuild == InitBuild /\ [][NextBuild]_vars

----------------------------------------------------------------------------
(* A caller that drives the engine and also draws from the deck itself *)

NextDraw == Next \/ DeckDraw

SpecDraw == InitAny /\ [][NextDraw]_vars

----------------------------------------------------------------------------
(* Properties *)

EngineOps ==
    {"handle_monster_attack", "handle_drink_potion", "handle_equip_weapon",
     "handle_flee_room", "handle_next_room"}

CardOps == {"handle_monster_attack", "handle_drink_potion", "handle_equip_weapon"}

MonstersInRoom == {c \in Range(room) : c.type = CONST_MONSTER}

\* the weapon has a kill history and its most recent kill has rank R
LastKillRank(R) ==
    /\ equipped # <<>>
    /\ equipped[1].slain_monsters # <<>>
    /\ equipped[1].slain_monsters[Len(equipped[1].slain_monsters)].rank = R

\* the first card of the set S that repeated draw() calls return
RECURSIVE FirstDrawnOf(_, _)
FirstDrawnOf(cards, S) ==
    IF draw(cards).card \in S THEN draw(cards).card
    ELSE FirstDrawnOf(draw(cards).cards, S)

\* C1: flee alternation.  Once a flee has committed, can_flee_room is false
\* in every state until a handle_next_room is called on a non-empty room, so
\* no second flee commits before such a normal transition.
C1_FleeAlternation ==
    /\ fleesSinceNormal <= 1
    /\ fleesSinceNormal >= 1 => ~can_flee_room

\* a flee committed, the room was dealt again and is full, and fleeing is refused
C1_Witness ==
    /\ fleesSinceNormal = 1
    /\ last.op = "handle_next_room"
    /\ Len(room) = 4

\* C2: a handle_next_room that follows a card interaction and refills the room
\* leaves last_room_fled false, whether the room held 1 or 0 cards at the call.
C2_NormalEntryRearms ==
    [][ ( /\ last.op \in CardOps
          /\ last.ok
          /\ last'.op = "handle_next_room"
          /\ last'.ok
          /\ Len(room') > Len(room) )
        => ~last_room_fled' ]_vars

\* C3: can_flee_room is true exactly when the room holds 4 cards and
\* last_room_fled is false.
C3_CanFleeIffFullAndNotFled ==
    can_flee_room <=> (Len(room) = 4 /\ ~last_room_fled)

C3_Witness == Len(room) = 4 /\ ~last_room_fled /\ can_flee_room

\* C4 as stated: of the cards bottomed by one to_bottom call, the last card of
\* the input list is the first that later draw() calls return.
C4_LastInputDrawnFirst ==
    (last.op = "to_bottom" /\ last.cards # <<>>)
        => FirstDrawnOf(deck, Range(last.cards)) = last.cards[Len(last.cards)]

\* C4 amended: of the cards bottomed by one to_bottom call, the first card of
\* the input list is the first that later draw() calls return, and the last
\* card of the input list lies at the very bottom (index 0).
C4_FirstInputDrawnFirst ==
    (last.op = "to_bottom" /\ last.cards # <<>>)
        => /\ FirstDrawnOf(deck, Range(last.cards)) = last.cards[1]
           /\ deck[1] = last.cards[Len(last.cards)]

\* two or more cards were bottomed under a non-empty deck
C4_Witness ==
    /\ last.op = "to_bottom"
    /\ Len(last.cards) >= 2
    /\ Len(deck) > Len(last.cards)

\* C5: a handle_flee_room with can_flee_room true empties the room, sets
\* last_room_fled, puts the 4 room cards at deck indices 0..3 in reverse room
\* order below the old deck (kept in order), and leaves life and weapon alone.
C5_FleeEffect ==
    [][ (last'.op = "handle_flee_room" /\ can_flee_room)
        => /\ room' = <<>>
           /\ last_room_fled'
           /\ Len(deck') = Len(deck) + 4
           /\ \A i \in 1..4 : deck'[i] = room[5 - i]
           /\ \A i \in 1..Len(deck) : deck'[4 + i] = deck[i]
           /\ current_life' = current_life
           /\ equipped' = equipped ]_vars

\* a flee committed onto a deck that already held cards
C5_Witness ==
    /\ last.op = "handle_flee_room"
    /\ last.ok
    /\ room = <<>>
    /\ Len(deck) > 4

\* C6: handle_next_room with r <= 1 room cards and d deck cards resets
\* potions_used, clears last_room_fled iff r = 1, keeps the leftover card
\* first, and appends cards from the top of the deck until the room has 4
\* cards or the deck is empty.
C6_NextRoomDeal ==
    [][ (last'.op = "handle_next_room" /\ Len(room) <= 1)
        => LET r == Len(room)
               d == Len(deck)
               n == Min(4, r + d) - r
           IN  /\ potions_used' = 0
               /\ last_room_fled' = (IF r = 1 THEN FALSE ELSE last_room_fled)
               /\ Len(room') = Min(4, r + d)
               /\ Len(deck') = d - n
               /\ \A i \in 1..r : room'[i] = room[i]
               /\ \A i \in 1..n : room'[r + i] = deck[d + 1 - i]
               /\ \A i \in 1..(d - n) : deck'[i] = deck[i]
               /\ (r = 0 /\ d >= 4) => (Len(room') = 4 /\ Len(deck') = d - 4) ]_vars

\* a refill that ran the deck dry before the room was full
C6_Witness ==
    /\ last.op = "handle_next_room"
    /\ last.ok
    /\ Len(room) \in 2..3
    /\ deck = <<>>

\* C7: can_attack_monster is false for a monster whose card_id is not in the
\* room, false with use_weapon and no weapon, false with use_weapon and an
\* ineffective weapon, and true otherwise (every bare-handed attack on a
\* monster in the room, lethal or not).
C7_CanAttack ==
    \A m \in AllMonsters, uw \in BOOLEAN :
        LET inRoom == card_id(m) \in {card_id(c) : c \in Range(room)}
            ineffective == \E R \in Ranks : LastKillRank(R) /\ m.rank >= R
        IN  can_attack_monster(m, uw) =
                IF ~inRoom THEN FALSE
                ELSE IF uw /\ equipped = <<>> THEN FALSE
                ELSE IF uw /\ ineffective THEN FALSE
                ELSE TRUE

\* a monster in the room whose bare-handed damage kills, and one the weapon is
\* ineffective against
C7_Witness ==
    /\ \E m \in MonstersInRoom : m.rank >= current_life /\ can_attack_monster(m, FALSE)
    /\ \E m \in MonstersInRoom, R \in Ranks : LastKillRank(R) /\ m.rank >= R

\* C8 as stated: with last-slain rank R and a monster of rank R in the room,
\* can_attack_monster(.., use_weapon=True) is true and preview_attack reports
\* full damage R.
C8_EqualRankAllowed ==
    \A m \in MonstersInRoom :
        LastKillRank(m.rank)
            => /\ can_attack_monster(m, TRUE)
               /\ preview_attack(m, TRUE).damage_taken = m.rank

\* C8 amended: with last-slain rank R and a monster of rank R in the room,
\* can_attack_monster(.., use_weapon=True) is false and preview_attack reports
\* full damage R.
C8_EqualRankRefused ==
    \A m \in MonstersInRoom :
        LastKillRank(m.rank)
            => /\ ~can_attack_monster(m, TRUE)
               /\ preview_attack(m, TRUE).damage_taken = m.rank

C8_Witness == \E m \in MonstersInRoom : LastKillRank(m.rank)

\* C9: an equipped weapon is effective against a monster iff its slain list is
\* empty or the monster's rank is below the rank of its last kill, whatever
\* the earlier kills are.
C9_EffectiveByLastKill ==
    equipped # <<>> =>
        \A m \in AllMonsters :
            _weapon_effective(m, equipped[1]) =
                ( \/ equipped[1].slain_monsters = <<>>
                  \/ \E R \in Ranks : LastKillRank(R) /\ m.rank < R )

\* a history whose earlier kill is weaker than the last one
C9_Witness ==
    /\ equipped # <<>>
    /\ Len(equipped[1].slain_monsters) >= 2
    /\ equipped[1].slain_monsters[1].rank < equipped[1].slain_monsters[2].rank

\* C10: preview_attack reports the monster's rank bare-handed, unarmed or with
\* an ineffective weapon, else max(0, monster rank - weapon rank), and
\* is_lethal exactly when the damage is at least current_life.
C10_PreviewAttack ==
    \A m \in AllMonsters, uw \in BOOLEAN :
        LET ineffective == \E R \in Ranks : LastKillRank(R) /\ m.rank >= R
            diff == IF equipped # <<>> THEN m.rank - equipped[1].weapon.rank ELSE 0
            expected == IF ~uw \/ equipped = <<>> \/ ineffective THEN m.rank
                        ELSE IF diff < 0 THEN 0 ELSE diff
            p == preview_attack(m, uw)
        IN  /\ p.damage_taken = expected
            /\ p.damage_taken >= 0
            /\ p.is_lethal = (expected >= current_life)

\* an effective weapon stronger than a monster in the room, and a lethal preview
C10_Witness ==
    /\ \E m \in MonstersInRoom :
          /\ equipped # <<>>
          /\ _weapon_effective(m, equipped[1])
          /\ m.rank < equipped[1].weapon.rank
          /\ preview_attack(m, TRUE).damage_taken = 0
    /\ \E m \in MonstersInRoom : preview_attack(m, FALSE).is_lethal

\* C11: handle_monster_attack lowers current_life by exactly the damage_taken
\* that preview_attack reports in the state it is called in, without clamping
\* at 0, and the player is dead afterwards exactly when the preview's
\* is_lethal was true.
C11_AttackAppliesPreview ==
    [][ last'.op = "handle_monster_attack"
        => LET preview == preview_attack(last'.cards[1], last'.use_weapon)
           IN  /\ current_life' = current_life - preview.damage_taken
               /\ is_dead' <=> preview.is_lethal ]_vars

\* an attack went through and left the player with negative life
C11_Witness ==
    /\ last.op = "handle_monster_attack"
    /\ last.ok
    /\ last.life > 0
    /\ current_life < 0

\* C12: handle_monster_attack appends the monster to the equipped weapon's
\* slain_monsters, as its new last element, exactly when use_weapon is true and
\* a weapon is equipped; otherwise the equipped weapon and its history are
\* unchanged.  Either way exactly the attacked monster leaves the room, and
\* deck, flee flag and potions_used are unchanged.
C12_AttackFrame ==
    [][ last'.op = "handle_monster_attack"
        => LET monster == last'.cards[1]
               recorded == last'.use_weapon /\ equipped # <<>>
           IN  /\ recorded
                   => /\ equipped'[1].weapon = equipped[1].weapon
                      /\ equipped'[1].slain_monsters
                           = equipped[1].slain_monsters \o <<monster>>
                      /\ last_slain_monster(equipped'[1]) = <<monster>>
               /\ ~recorded => equipped' = equipped
               /\ \E i \in 1..Len(room) :
                      /\ room[i] = monster
                      /\ room' = RemoveAt(room, i)
               /\ monster \notin Range(room')
               /\ deck' = deck
               /\ last_room_fled' = last_room_fled
               /\ potions_used' = potions_used ]_vars

\* a weapon attack added a kill to a weapon that already had one
C12_Witness ==
    /\ last.op = "handle_monster_attack"
    /\ last.use_weapon
    /\ last.equipped # <<>>
    /\ last.equipped[1].slain_monsters # <<>>
    /\ equipped[1].slain_monsters
         = Append(last.equipped[1].slain_monsters, last.cards[1])

\* C13 as stated: whenever current_life <= max_life, for every potion rank the
\* healing is min(max_life, current_life + potency) - current_life whatever
\* potions_used is, current_life + healing <= max_life, and a drink leaves the
\* player at max_life exactly when current_life + potency >= max_life and
\* potions_used was 0.
C13_PotionCapAnyCount ==
    /\ [] ( current_life <= max_life
            => \A p \in AllPotions :
                  LET healing == preview_potion(p).healing_received
                  IN  /\ current_life + healing <= max_life
                      /\ healing = Min(max_life, current_life + potency(p)) - current_life )
    /\ [][ (last'.op = "handle_drink_potion" /\ current_life <= max_life)
           => ( current_life' = max_life
                <=> ( /\ current_life + potency(last'.cards[1]) >= max_life
                      /\ potions_used = 0 ) ) ]_vars

\* C13 (amended): whenever current_life <= max_life, for every potion rank the
\* healing is min(max_life, current_life + potency) - current_life when
\* potions_used is 0 and 0 otherwise, so current_life + healing <= max_life; a
\* drink found with potions_used = 0 leaves the player at max_life exactly
\* when current_life + potency >= max_life, and a drink found with
\* potions_used > 0 leaves current_life as it was.
C13_PotionCap ==
    /\ [] ( current_life <= max_life
            => \A p \in AllPotions :
                  LET healing == preview_potion(p).healing_received
                  IN  /\ current_life + healing <= max_life
                      /\ healing = IF potions_used = 0
                                   THEN Min(max_life, current_life + potency(p))
                                        - current_life
                                   ELSE 0 )
    /\ [][ (last'.op = "handle_drink_potion" /\ current_life <= max_life)
           => /\ current_life' <= max_life
              /\ potions_used = 0
                  => ( current_life' = max_life
                       <=> current_life + potency(last'.cards[1]) >= max_life )
              /\ potions_used > 0 => current_life' = current_life ]_vars

\* the first potion of a room was drunk by a hurt player and was cut off at max_life
C13_Witness ==
    /\ last.op = "handle_drink_potion"
    /\ last.potions = 0
    /\ last.life < max_life
    /\ last.life + potency(last.cards[1]) > max_life
    /\ current_life = max_life

\* C14: between two consecutive room deals at most one handle_drink_potion
\* changes current_life: a potion drunk while potions_used > 0 heals 0, a
\* handle_next_room that goes through leaves potions_used at 0, and the first
\* potion after it heals a hurt player again.
C14_OneHealPerRoom ==
    /\ [] (healsSinceDeal <= 1)
    /\ [][ /\ (last'.op = "handle_drink_potion" /\ potions_used > 0)
              => current_life' = current_life
           /\ (last'.op = "handle_next_room" /\ last'.ok)
              => (potions_used' = 0 /\ healsSinceDeal' = 0)
           /\ (last'.op = "handle_drink_potion" /\ potions_used = 0
                  /\ current_life < max_life)
              => (current_life' > current_life /\ healsSinceDeal' = 1) ]_vars

\* a hurt player drank a second potion in one room and stayed hurt
C14_Witness ==
    /\ last.op = "handle_drink_potion"
    /\ last.potions = 1
    /\ healsSinceDeal = 1
    /\ current_life = last.life
    /\ current_life < max_life

\* C15: can_drink_potion is true iff the potion's card_id is in the room,
\* whatever potions_used is; handle_drink_potion adds exactly the previewed
\* healing to current_life, increments potions_used by 1 also when the
\* healing is 0, and removes exactly that potion from the room.
C15_DrinkPotion ==
    /\ [] ( \A p \in AllPotions :
               can_drink_potion(p)
               <=> card_id(p) \in {card_id(room[i]) : i \in 1..Len(room)} )
    /\ [][ last'.op = "handle_drink_potion"
           => LET potion == last'.cards[1] IN
              /\ current_life' = current_life + preview_potion(potion).healing_received
              /\ potions_used' = potions_used + 1
              /\ \E i \in 1..Len(room) :
                     /\ room[i] = potion
                     /\ room' = RemoveAt(room, i)
              /\ potion \notin Range(room') ]_vars

\* a potion was drunk at full life: it healed nothing and still counts as used
C15_Witness ==
    /\ last.op = "handle_drink_potion"
    /\ last.ok
    /\ last.potions = 0
    /\ last.life = max_life
    /\ current_life = max_life
    /\ potions_used = 1
    /\ ~exists(room, last.cards[1])

\* the previously equipped weapon and the monsters it killed
OldWeaponCards ==
    IF equipped = <<>> THEN {}
    ELSE {equipped[1].weapon} \cup Range(equipped[1].slain_monsters)

\* C16: can_equip_weapon is true iff the weapon's card_id is in the room;
\* handle_equip_weapon on a weapon in the room makes player.equipped that weapon
\* with an empty slain_monsters (last_slain_monster none), removes the weapon
\* card from the room, and leaves the previously equipped weapon and its
\* history in none of deck, room and discard_pile.
C16_EquipWeapon ==
    /\ [] ( \A w \in AllWeapons :
               can_equip_weapon(w)
               <=> card_id(w) \in {card_id(room[i]) : i \in 1..Len(room)} )
    /\ [][ (last'.op = "handle_equip_weapon" /\ exists(room, last'.cards[1]))
           => LET weapon == last'.cards[1] IN
              /\ Len(equipped') = 1
              /\ equipped'[1].weapon = weapon
              /\ equipped'[1].slain_monsters = <<>>
              /\ last_slain_monster(equipped'[1]) = <<>>
              /\ \E i \in 1..Len(room) :
                     /\ room[i] = weapon
                     /\ room' = RemoveAt(room, i)
              /\ OldWeaponCards
                   \cap (Range(deck') \cup Range(room') \cup Range(discard_pile')) = {} ]_vars

\* a weapon was equipped over a weapon that had kills
C16_Witness ==
    /\ last.op = "handle_equip_weapon"
    /\ last.ok
    /\ last.equipped # <<>>
    /\ last.equipped[1].slain_monsters # <<>>
    /\ equipped = <<[weapon |-> last.cards[1], slain_monsters |-> <<>>]>>
    /\ last.equipped[1].weapon # last.cards[1]

\* the potency of the potion left in a room of at most one card
LeftoverPotency ==
    IF room # <<>> /\ room[1].type = CONST_POTION THEN room[1].rank ELSE 0

\* C17: is_victory returns a score iff the deck is empty and the room holds at
\* most one card of any kind, else none; the score is current_life plus the
\* potency of the potion still in the room.
C17_IsVictory ==
    is_victory = IF Len(deck) = 0 /\ Len(room) <= 1
                 THEN <<current_life + LeftoverPotency>>
                 ELSE <<>>

\* victory with a potion left over in the room
C17_Witness ==
    /\ deck = <<>>
    /\ Len(room) = 1
    /\ room[1].type = CONST_POTION
    /\ last.op \in CardOps
    /\ is_victory = <<current_life + room[1].rank>>

RECURSIVE RankSum(_)
\* sum of the ranks of a set of cards
RankSum(S) ==
    IF S = {} THEN 0
    ELSE LET c == CHOOSE x \in S : TRUE IN c.rank + RankSum(S \ {c})

\* C18: is_game_over returns a score iff current_life <= 0 (iff is_dead), else
\* none; the score is current_life minus the ranks of the monsters still in
\* the deck, whatever the room holds and whatever else the deck holds.
C18_IsGameOver ==
    /\ is_game_over # <<>> <=> current_life <= 0
    /\ is_game_over # <<>> <=> is_dead
    /\ is_game_over # <<>>
       => is_game_over[1]
           = current_life - RankSum({c \in Range(deck) : c.type = CONST_MONSTER})

\* a dead player with a monster and another card still in the deck
C18_Witness ==
    /\ is_game_over # <<>>
    /\ \E c \in Range(deck) : c.type = CONST_MONSTER
    /\ \E c \in Range(deck) : c.type # CONST_MONSTER
    /\ is_game_over[1] < current_life

\* C19: handle_equip_weapon called with a weapon not in the room, and
\* handle_flee_room called when the room does not hold exactly 4 cards or
\* last_room_fled is true, raise nothing and leave the whole game state
\* unchanged (player, deck order, bottomed_cards, room, potions_used,
\* last_room_fled).
C19_DefensiveNoOp ==
    [][ ( \/ /\ last'.op = "handle_equip_weapon"
             /\ ~exists(room, last'.cards[1])
          \/ /\ last'.op = "handle_flee_room"
             /\ (Len(room) # 4 \/ last_room_fled) )
        => /\ raised' = "none"
           /\ faults' = faults
           /\ gameVars' = gameVars ]_vars

\* a player holding a weapon was handed a weapon that is not in the room
C19_Witness ==
    /\ last.op = "handle_equip_weapon"
    /\ ~last.ok
    /\ ~exists(room, last.cards[1])
    /\ raised = "none"
    /\ equipped # <<>>
    /\ equipped = last.equipped
    /\ equipped[1].weapon # last.cards[1]

\* C20: no handle_* call, for any state and any card, reaches the
\* card-not-found failure of Room.interacted.
C20_NeverCardNotFound == raised # "ValueError"

\* C21: Deck.draw on a non-empty deck removes and returns the last element
\* and leaves the other cards in order; on an empty deck it raises
\* DeckEmptyError and leaves the deck unchanged; no engine operation, whatever
\* the room and deck size, raises DeckEmptyError.
C21_DrawAndNoDeckEmpty ==
    /\ [][ last'.op = "draw"
           => IF Len(deck) >= 1
              THEN /\ last'.cards = <<deck[Len(deck)]>>
                   /\ Len(deck') = Len(deck) - 1
                   /\ \A i \in 1..Len(deck') : deck'[i] = deck[i]
                   /\ raised' = "none"
              ELSE /\ raised' = "DeckEmptyError"
                   /\ deck' = deck ]_vars
    /\ [][ last'.op \in EngineOps => raised' # "DeckEmptyError" ]_vars
    /\ [] (raised = "DeckEmptyError" => last.op = "draw")

\* a refill that ran out of cards before the room was full, without raising
C21_Witness ==
    /\ last.op = "handle_next_room"
    /\ last.ok
    /\ deck = <<>>
    /\ Len(room) \in {2, 3}
    /\ raised = "none"

\* C22: Room.interacted(card) removes exactly one card, the first whose suit
\* and rank equal the given card's, and keeps the others in order (a card of
\* equal rank but other suit, or a later duplicate, stays); when no card
\* matches it raises and leaves the room unchanged.  Room.exists(card) is
\* true iff some room card has that suit and rank.
C22_RoomInteracted ==
    /\ [] ( \A c \in CardPool :
               exists(room, c)
               <=> \E i \in 1..Len(room) : room[i].suit = c.suit /\ room[i].rank = c.rank )
    /\ [][ last'.op = "interacted"
           => LET card == last'.cards[1]
                  Matches == {i \in 1..Len(room) :
                                room[i].suit = card.suit /\ room[i].rank = card.rank}
              IN  IF Matches # {}
                  THEN LET k == CHOOSE i \in Matches : \A j \in Matches : i <= j
                       IN  /\ Len(room') = Len(room) - 1
                           /\ \A j \in 1..(k - 1) : room'[j] = room[j]
                           /\ \A j \in k..Len(room') : room'[j] = room[j + 1]
                           /\ raised' = "none"
                  ELSE /\ room' = room
                       /\ raised' = "ValueError" ]_vars

\* a card was removed while a later duplicate and a card of equal rank but
\* other suit stayed
C22_Witness ==
    /\ last.op = "interacted"
    /\ last.ok
    /\ exists(room, last.cards[1])
    /\ \E i \in 1..Len(room) :
          room[i].rank = last.cards[1].rank /\ room[i].suit # last.cards[1].suit

\* C24: GameState.slain_monsters is a running list of all monsters slain in
\* the session: every handle_monster_attack that goes through, with or without
\* weapon, adds one to total_slain_count.
C24_SlainCountsAttacks ==
    [][ (last'.op = "handle_monster_attack" /\ last'.ok)
        => total_slain_count' = total_slain_count + 1 ]_vars

\* C25: Player.heal and Player.take_damage raise for a negative amount and
\* leave current_life unchanged; for amount >= 0 heal sets current_life to
\* min(max_life, current_life + amount) and take_damage sets it to
\* max(0, current_life - amount).
C25_HealAndTakeDamage ==
    [][ /\ (last'.op \in {"heal", "take_damage"} /\ last'.amount < 0)
           => (raised' = "ValueError" /\ current_life' = current_life)
        /\ (last'.op = "heal" /\ last'.amount >= 0)
           => /\ raised' = "none"
              /\ current_life' = IF current_life + last'.amount > max_life
                                 THEN max_life
                                 ELSE current_life + last'.amount
        /\ (last'.op = "take_damage" /\ last'.amount >= 0)
           => /\ raised' = "none"
              /\ current_life' = IF current_life - last'.amount < 0
                                 THEN 0
                                 ELSE current_life - last'.amount ]_vars

\* damage larger than the life left was taken and stopped at zero
C25_Witness ==
    /\ last.op = "take_damage"
    /\ last.amount > last.life
    /\ last.life > 0
    /\ current_life = 0

\* C26: drawing every card of a deck and passing the drawn cards, in draw
\* order, to to_bottom gives a deck with the same number of cards, and every
\* to_bottom call raises bottomed_cards by exactly the number of cards it
\* was given.
C26_DrawBottomRoundTrip ==
    [][ /\ last'.op = "round_trip"
           => /\ Len(last'.cards) = Len(deck)
              /\ Len(deck') = Len(deck)
              /\ bottomed_cards' = bottomed_cards + Len(deck)
        /\ last'.op = "to_bottom"
           => /\ Len(deck') = Len(deck) + Len(last'.cards)
              /\ bottomed_cards' = bottomed_cards + Len(last'.cards) ]_vars

\* a deck of several cards went through the round trip
C26_Witness ==
    /\ last.op = "round_trip"
    /\ Len(last.cards) >= 3
    /\ Len(deck) = Len(last.cards)
    /\ Range(deck) = Range(last.cards)
    /\ bottomed_cards >= Len(deck)

\* C27: Deck.composition reflects the current contents after any sequence of
\* draw and to_bottom calls: each count is the number of deck cards of that
\* kind, and composition.total equals deck.remaining.
C27_Composition ==
    LET IsMonster(c) == c.type = CONST_MONSTER
        IsPotion(c) == c.type = CONST_POTION
        IsWeapon(c) == c.type = CONST_WEAPON
    IN  /\ composition(deck).monsters = Len(SelectSeq(deck, IsMonster))
        /\ composition(deck).potions = Len(SelectSeq(deck, IsPotion))
        /\ composition(deck).weapons = Len(SelectSeq(deck, IsWeapon))
        /\ total(composition(deck)) = Len(deck)

\* cards of every kind in a deck that was drawn from and bottomed to
C27_Witness ==
    /\ last.op = "to_bottom"
    /\ Len(last.cards) >= 1
    /\ Len(deck) < NumCards
    /\ composition(deck).monsters >= 1
    /\ composition(deck).potions >= 1
    /\ composition(deck).weapons >= 1

\* C28: the deck StandardDeckBuilder builds has exactly 44 cards: 26 monsters
\* of ranks 2-14 in two suits, 9 potions and 9 weapons of ranks 2-10, all with
\* pairwise distinct card_id; shuffling changes only the order, not the set
\* of cards.
C28_StandardDeck ==
    last.op = "build"
    => /\ raised = "none"
       /\ Len(deck) = 44
       /\ {c \in Range(deck) : c.type = CONST_MONSTER}
            = {Monster(su, r) : su \in {"SPADES", "CLUBS"}, r \in 2..14}
       /\ {c \in Range(deck) : c.type = CONST_POTION}
            = {Potion("HEARTS", r) : r \in 2..10}
       /\ {c \in Range(deck) : c.type = CONST_WEAPON}
            = {Weapon("DIAMONDS", r) : r \in 2..10}
       /\ composition(deck) = [monsters |-> 26, potions |-> 9, weapons |-> 9]
       /\ Cardinality({card_id(deck[i]) : i \in 1..Len(deck)}) = Len(deck)
       /\ Range(deck) = Range(StandardCards)

\* a built deck whose shuffle moved cards
C28_Witness ==
    /\ last.op = "build"
    /\ Len(deck) = 44
    /\ deck # StandardCards

\* the cards of deck and room together
CardsInPlay == deck \o room

\* C29: in legal play from a deck with pairwise distinct card_ids and an empty
\* room, no card_id occurs twice in deck and room together; deck.remaining +
\* room.remaining never increases, is unchanged by handle_flee_room and
\* handle_next_room, and drops by exactly 1 with each attack, drink or equip.
C29_CardConservation ==
    /\ [] ( \A i, j \in 1..Len(CardsInPlay) :
               i # j => card_id(CardsInPlay[i]) # card_id(CardsInPlay[j]) )
    /\ [][ /\ Len(CardsInPlay') <= Len(CardsInPlay)
           /\ last'.op \in {"handle_flee_room", "handle_next_room"}
              => Len(CardsInPlay') = Len(CardsInPlay)
           /\ last'.op \in CardOps
              => Len(CardsInPlay') = Len(CardsInPlay) - 1 ]_vars

\* the last cards dealt after a flee and after cards were played
C29_Witness ==
    /\ last.op = "handle_next_room"
    /\ last.ok
    /\ bottomed_cards > 0
    /\ deck = <<>>
    /\ Len(room) >= 2
    /\ Len(CardsInPlay) < NumCards

\* some mutator is legal
SomeLegal ==
    \/ next_room_available
    \/ can_flee_room
    \/ \E c \in Range(room) :
          \/ c.type = CONST_MONSTER /\ can_attack_monster(c, FALSE)
          \/ c.type = CONST_POTION /\ can_drink_potion(c)
          \/ c.type = CONST_WEAPON /\ can_equip_weapon(c)

\* where the room stands in the cycle refill - flee - refill - play
Phase ==
    IF next_room_available /\ (Len(room) = 1 \/ ~last_room_fled) THEN 3
    ELSE IF can_flee_room THEN 2
    ELSE IF next_room_available THEN 1
    ELSE 0

\* 0 once a score is returned; else the cards left, then the phase
Variant ==
    IF SessionOver THEN 0 ELSE 4 * (Len(deck) + Len(room)) + Phase

\* C30: every legal play ends: while neither is_victory nor is_game_over
\* returns a score some mutator is legal, and every legal commit lowers a
\* measure that is never negative, so a score is reached after finitely many
\* commits; between two committed flees at least 3 cards leave the room.
C30_Termination ==
    /\ [] (Variant >= 0)
    /\ [] (~SessionOver => SomeLegal)
    /\ [][ Variant' < Variant ]_vars
    /\ [][ (last'.op = "handle_flee_room" /\ bottomed_cards > 0)
           => leftSinceFlee >= 3 ]_vars

\* a second flee went through
C30_Witness ==
    /\ last.op = "handle_flee_room"
    /\ last.ok
    /\ bottomed_cards = 8
    /\ Len(deck) + Len(room) <= LongCards - 3

HasLegalAction(c) ==
    \/ c.type = CONST_MONSTER /\ can_attack_monster(c, FALSE)
    \/ c.type = CONST_POTION /\ can_drink_potion(c)
    \/ c.type = CONST_WEAPON /\ can_equip_weapon(c)

\* C31: no dead end.  In every state of legal play in which neither is_victory
\* nor is_game_over returns a score, either the room holds at most 1 card and
\* handle_next_room is available and draws at least one card, or the room
\* holds at least 2 cards and every room card has a legal action.
C31_NoDeadEnd ==
    ~SessionOver =>
        IF Len(room) <= 1
        THEN /\ next_room_available
             /\ Len(refill(room, deck).room) > Len(room)
             /\ refill(room, deck).raised = "none"
        ELSE \A i \in 1..Len(room) : HasLegalAction(room[i])

\* play goes on with a monster in the room that the equipped weapon may not be
\* used against
C31_Witness ==
    /\ ~SessionOver
    /\ last.op \in CardOps
    /\ Len(room) >= 2
    /\ \E m \in MonstersInRoom :
          ~can_attack_monster(m, TRUE) /\ can_attack_monster(m, FALSE)

\* C32: in legal play the ranks in the equipped weapon's slain_monsters list
\* are strictly decreasing in kill order, in every reachable state.
C32_KillsStrictlyDecreasing ==
    equipped # <<>> =>
        \A i \in 1..(Len(equipped[1].slain_monsters) - 1) :
            equipped[1].slain_monsters[i].rank > equipped[1].slain_monsters[i + 1].rank

\* one weapon has slain two monsters
C32_Witness ==
    /\ last.op = "handle_monster_attack"
    /\ last.use_weapon
    /\ equipped # <<>>
    /\ Len(equipped[1].slain_monsters) >= 2

\* the last call was a weapon attack on a monster of the room against which
\* the weapon it found equipped was ineffective
IneffectiveWeaponAttack ==
    /\ last.op = "handle_monster_attack"
    /\ last.use_weapon
    /\ last.ok
    /\ last.equipped # <<>>
    /\ ~_weapon_effective(last.cards[1], last.equipped[1])

\* the ranks against which weapon w is not effective while weapon v is
NewlyEffective(w, v) ==
    {r \in Ranks : /\ ~_weapon_effective(Monster("SPADES", r), w)
                   /\ _weapon_effective(Monster("SPADES", r), v)}

\* C33 as stated: after a weapon attack committed while the weapon is
\* ineffective the player has taken the full damage, the monster is appended
\* to the weapon's history, the last-slain rank has risen to the monster's rank
\* and the weapon is effective against ranks it was ineffective against.
C33_IneffectiveAttackRaisesRank ==
    IneffectiveWeaponAttack =>
        /\ current_life = last.life - strength(last.cards[1])
        /\ equipped = <<[last.equipped[1] EXCEPT !.slain_monsters = Append(@, last.cards[1])]>>
        /\ last.cards[1].rank > last_slain_monster(last.equipped[1])[1].rank
        /\ NewlyEffective(last.equipped[1], equipped[1]) # {}

\* C33: after a weapon attack committed while the weapon is ineffective the
\* player has taken the full damage and the monster is appended to the
\* weapon's history; the last-slain rank is now the monster's rank, which is
\* equal to or above the previous one, and the weapon is effective against
\* exactly the further ranks from the previous last-slain rank up to, not
\* including, the monster's rank (none when the two ranks are equal).
C33_IneffectiveAttackRecorded ==
    IneffectiveWeaponAttack =>
        /\ current_life = last.life - strength(last.cards[1])
        /\ equipped = <<[last.equipped[1] EXCEPT !.slain_monsters = Append(@, last.cards[1])]>>
        /\ LastKillRank(last.cards[1].rank)
        /\ last.cards[1].rank >= last_slain_monster(last.equipped[1])[1].rank
        /\ NewlyEffective(last.equipped[1], equipped[1])
              = {r \in Ranks : /\ r >= last_slain_monster(last.equipped[1])[1].rank
                               /\ r < last.cards[1].rank}

\* an ineffective weapon was used on a monster of a higher rank than its last kill
C33_Witness ==
    /\ IneffectiveWeaponAttack
    /\ last.cards[1].rank > last_slain_monster(last.equipped[1])[1].rank
    /\ NewlyEffective(last.equipped[1], equipped[1]) # {}

\* C34: failure is not atomic.  handle_monster_attack for a monster absent from
\* the room raises the not-found error after current_life was reduced by the
\* previewed damage and, with a weapon, the monster was appended to the weapon
\* history; handle_drink_potion for an absent potion raises it after the
\* healing was applied and potions_used was incremented.  Room and deck are
\* unchanged in both cases.
C34_FailureNotAtomic ==
    [][ /\ (last'.op = "handle_monster_attack" /\ ~last'.ok) =>
              /\ raised' = "ValueError"
              /\ current_life' = current_life
                    - preview_attack(last'.cards[1], last'.use_weapon).damage_taken
              /\ equipped' = IF last'.use_weapon /\ equipped # <<>>
                             THEN <<[equipped[1] EXCEPT
                                       !.slain_monsters = Append(@, last'.cards[1])]>>
                             ELSE equipped
              /\ room' = room
              /\ deck' = deck
        /\ (last'.op = "handle_drink_potion" /\ ~last'.ok) =>
              /\ raised' = "ValueError"
              /\ current_life' = current_life
                    + preview_potion(last'.cards[1]).healing_received
              /\ potions_used' = potions_used + 1
              /\ room' = room
              /\ deck' = deck ]_vars

\* a failed weapon attack that cost life and left a kill in the weapon history
C34_Witness ==
    /\ last.op = "handle_monster_attack"
    /\ ~last.ok
    /\ raised = "ValueError"
    /\ last.use_weapon
    /\ current_life < last.life
    /\ equipped # <<>>
    /\ last.equipped # <<>>
    /\ Len(equipped[1].slain_monsters) = Len(last.equipped[1].slain_monsters) + 1
    /\ room # <<>>

\* C35: game over is not absorbing in the engine.  With current_life <= 0 every
\* potion of the room can still be drunk, and a handle_drink_potion committed
\* with current_life <= 0 and potions_used = 0 raises current_life by
\* min(potency, max_life - current_life); when that brings current_life above
\* 0, is_game_over goes from a score back to none.
C35_GameOverNotAbsorbing ==
    /\ [] (is_dead => \A p \in RoomCards(CONST_POTION) : can_drink_potion(p))
    /\ [][ (/\ last'.op = "handle_drink_potion"
            /\ last'.ok
            /\ current_life <= 0
            /\ potions_used = 0) =>
              /\ is_game_over # <<>>
              /\ current_life' = current_life
                    + Min(potency(last'.cards[1]), max_life - current_life)
              /\ (current_life' > 0 => is_game_over' = <<>>) ]_vars

\* a dead player drank and is alive again
C35_Witness ==
    /\ last.op = "handle_drink_potion"
    /\ last.ok
    /\ last.life <= 0
    /\ last.potions = 0
    /\ current_life > 0
    /\ is_game_over = <<>>

\* C36: a dead player is never reported victorious.  In a state with an empty
\* deck, at most 1 room card and current_life <= 0 both is_game_over and
\* is_victory return a score, and in every state with current_life <= 0 the
\* Streamlit page and the CLI loop end the session as game over, not victory.
C36_DeadNeverVictorious ==
    /\ (Len(deck) = 0 /\ Len(room) <= 1 /\ current_life <= 0) =>
          (is_game_over # <<>> /\ is_victory # <<>>)
    /\ current_life <= 0 => (main = "game-over" /\ play = "game-over")

\* a lethal attack on the second-to-last card
C36_Witness ==
    /\ last.op = "handle_monster_attack"
    /\ last.ok
    /\ last.life > 0
    /\ current_life <= 0
    /\ Len(deck) = 0
    /\ Len(room) = 1
    /\ is_victory # <<>>
    /\ is_game_over # <<>>

\* C37: life bound.  Every state reachable by engine operations has
\* current_life <= max_life; an attack never raises current_life, a potion
\* never lowers it and never lifts it above max_life, and no operation
\* changes max_life.
C37_LifeBound ==
    /\ [] (current_life <= max_life)
    /\ [][ /\ max_life' = max_life
           /\ last'.op = "handle_monster_attack" =>
                 /\ preview_attack(last'.cards[1], last'.use_weapon).damage_taken >= 0
                 /\ current_life' <= current_life
           /\ last'.op = "handle_drink_potion" =>
                 /\ current_life' >= current_life
                 /\ current_life' <= max_life
           /\ last'.op \in {"handle_equip_weapon", "handle_flee_room", "handle_next_room"} =>
                 current_life' = current_life ]_vars

\* a potion whose potency exceeds the missing life filled the player up
C37_Witness ==
    /\ last.op = "handle_drink_potion"
    /\ last.ok
    /\ last.potions = 0
    /\ last.life < max_life
    /\ last.life + potency(last.cards[1]) > max_life
    /\ current_life = max_life

\* C38: room bounds.  In legal play from the initial deal the room never holds
\* more than 4 cards and potions_used + room.remaining <= 4; a room with 4
\* cards has potions_used = 0 and is as the last refill left it (the last
\* committed operation is that handle_next_room), so can_flee_room is only
\* ever true in an untouched room.
C38_RoomBounds ==
    /\ Len(room) <= 4
    /\ potions_used + Len(room) <= 4
    /\ Len(room) = 4 => (potions_used = 0 /\ last.op = "handle_next_room" /\ last.ok)
    /\ can_flee_room => (Len(room) = 4 /\ potions_used = 0 /\ last.op = "handle_next_room")

\* two potions drunk in a room that was refilled around a left-over card
C38_Witness ==
    /\ potions_used = 2
    /\ Len(room) = 2
    /\ last.op = "handle_drink_potion"
    /\ Len(deck) + Len(room) <= LongCards - 5

\* C39: flee, then refill.  A committed handle_flee_room puts the room cards
\* under the deck so that repeated draws return every card the deck held
\* and then the fled cards in their room order, first room card first; no
\* other operation touches the bottom of the deck.  The handle_next_room
\* that follows fills the room to exactly 4 cards, the next 4 in draw order,
\* and keeps last_room_fled true; with an empty deck at flee time these are
\* the same 4 cards in the same order.
C39_FleeThenRefill ==
    [][ /\ (last'.op = "handle_flee_room" /\ last'.ok) =>
              draw_all(deck') = draw_all(deck) \o room
        /\ last'.op # "handle_flee_room" =>
              deck' = SubSeq(deck, 1, Len(deck'))
        /\ (last.op = "handle_flee_room" /\ last.ok /\ last'.op = "handle_next_room") =>
              /\ Len(room') = 4
              /\ room' = SubSeq(draw_all(deck), 1, 4)
              /\ last_room_fled'
              /\ Len(deck) = 4 => (room' = last.cards /\ deck' = <<>>) ]_vars

\* the room was refilled after a flee, the fled cards lying under the deck
C39_Witness ==
    /\ last.op = "handle_next_room"
    /\ last_room_fled
    /\ bottomed_cards = 4
    /\ Len(room) = 4
    /\ Len(deck) >= 4
    /\ room # SubSeq(draw_all(deck), Len(deck) - 3, Len(deck))

\* C40: handle_next_room re-checks its own precondition.  Called while the
\* room holds 2 or more cards it raises nothing and leaves the whole game
\* state unchanged, potions_used and last_room_fled included.
C40_NextRoomNoOp ==
    [][ (last'.op = "handle_next_room" /\ Len(room) >= 2) =>
            /\ ~last'.ok
            /\ raised' = "none"
            /\ gameVars' = gameVars
            /\ potions_used' = potions_used
            /\ last_room_fled' = last_room_fled ]_vars

\* the call came in a fled-into room in which a potion had been drunk
C40_Witness ==
    /\ last.op = "handle_next_room"
    /\ ~last.ok
    /\ Len(room) >= 2
    /\ Len(deck) > 0
    /\ potions_used > 0
    /\ last_room_fled

====
